---- MODULE Spec2Model ----
(***************************************************************************)
(* A model of src/value.rs: typed, non-owning references (Value, Arg,      *)
(* GlobalValue, GlobalVariable, Alias, Function, PhiNode) over the         *)
(* backend's opaque value handles, the checked downcasts between them, and *)
(* the Attribute / Linkage enumerations.                                   *)
(*                                                                         *)
(* The backend (the LLVM C API) is modelled by the state it keeps for each *)
(* handle: its name, its blocks, its attribute mask, its linkage code and  *)
(* its incoming list.  `result` records the last call of the wrapper and   *)
(* what it returned.                                                       *)
(***************************************************************************)
EXTENDS Integers, Sequences, FiniteSets, TLC

VARIABLES name, blocks, attrs, added, linkage, incoming, phiCalls, result

vars == <<name, blocks, attrs, added, linkage, incoming, phiCalls, result>>

(***************************************************************************)
(* Bounds of the model.                                                    *)
(***************************************************************************)
MaxNameLen == 1
MaxBlocks == 1
MaxIndex == 3
MaxAttrList == 2
MaxIncoming == 3

(***************************************************************************)
(* Option<T>.                                                              *)
(***************************************************************************)
None == [some |-> FALSE]

Some(v) == [some |-> TRUE, val |-> v]

(***************************************************************************)
(* Types of the backend, as far as Function::cast and get_signature look   *)
(* at them: an integer type, a function type, and pointers to a type.      *)
(***************************************************************************)
IntTy == [tag |-> "Integer"]

FnTy == [tag |-> "Function", ret |-> IntTy]

PtrTy(t) == [tag |-> "Pointer", elem |-> t]

\* What a reference to a type holds when the backend hands back a null type.
NullTy == [tag |-> "Null"]

(***************************************************************************)
(* The handles of one context.  Each is created by the backend as exactly  *)
(* one kind of value and keeps that kind and its type for life:            *)
(*   f0  : a function without parameters                                   *)
(*   f2  : a function with the parameters a0 (an integer) and a1 (a        *)
(*         pointer to a function)                                          *)
(*   g   : a global variable holding an integer                            *)
(*   al  : an alias of a function                                          *)
(*   phi : a phi node of integer type                                      *)
(*   u   : Value::new_undef of a function type                             *)
(***************************************************************************)
NullPtr == "null"

Handles == {"f0", "f2", "a0", "a1", "g", "al", "phi", "u"}

Kind(h) ==
  CASE h \in {"f0", "f2"} -> "Function"
    [] h \in {"a0", "a1"} -> "Arg"
    [] h = "g" -> "GlobalVariable"
    [] h = "al" -> "Alias"
    [] h = "phi" -> "PhiNode"
    [] h = "u" -> "Undef"

\* The capability chain: Function, GlobalVariable and Alias are GlobalValues;
\* every kind is a Value.
KindParent(k) ==
  CASE k \in {"Function", "GlobalVariable", "Alias"} -> "GlobalValue"
    [] OTHER -> "Value"

IsA(k, anc) == k = anc \/ KindParent(k) = anc \/ anc = "Value"

Functions == {h \in Handles : Kind(h) = "Function"}

Params(f) == IF f = "f2" THEN <<"a0", "a1">> ELSE <<>>

LLVMTypeOf(h) ==
  CASE h \in {"f0", "f2", "al", "a1"} -> PtrTy(FnTy)
    [] h = "g" -> PtrTy(IntTy)
    [] h \in {"a0", "phi"} -> IntTy
    [] h = "u" -> FnTy

(***************************************************************************)
(* The backend's runtime-type queries: the handle itself when the value is *)
(* of the kind asked for, the null handle otherwise.                       *)
(***************************************************************************)
LLVMIsAGlobalValue(h) == IF IsA(Kind(h), "GlobalValue") THEN h ELSE NullPtr

LLVMIsAGlobalVariable(h) == IF IsA(Kind(h), "GlobalVariable") THEN h ELSE NullPtr

LLVMIsAGlobalAlias(h) == IF IsA(Kind(h), "Alias") THEN h ELSE NullPtr

\* util::ptr_to_null: a null handle is None, any other handle is Some.
ptr_to_null(p) == IF p = NullPtr THEN None ELSE Some(p)

\* Type::is_function and Type::get_element (the pointee of a pointer type).
is_function(ty) == ty.tag = "Function"

get_element(ty) == IF ty.tag = "Pointer" THEN Some(ty.elem) ELSE None

\* LLVMGetElementType, called on the raw type: the pointee of a pointer type.
\* On a type that has no element type the call has no defined result: the
\* build hands back a null type or the first contained type (a function
\* type's return type).
LLVMGetElementType(ty) ==
  CASE ty.tag = "Pointer" -> {ty.elem}
    [] ty.tag = "Function" -> {NullTy, ty.ret}
    [] OTHER -> {NullTy}

(***************************************************************************)
(* Value                                                                   *)
(***************************************************************************)
Value_get_type(h) == LLVMTypeOf(h)

\* Deref of Arg, GlobalValue, GlobalVariable, Alias, Function and PhiNode:
\* the same handle, seen as the parent kind.
deref(h) == h

(***************************************************************************)
(* CastFrom                                                                *)
(***************************************************************************)
GlobalValue_cast(val) == ptr_to_null(LLVMIsAGlobalValue(val))

GlobalVariable_cast(val) == ptr_to_null(LLVMIsAGlobalVariable(val))

Alias_cast(val) == ptr_to_null(LLVMIsAGlobalAlias(val))

Function_cast(val) ==
  LET ty == Value_get_type(val)
      is_func0 == is_function(ty)
      elem == get_element(ty)
      is_func == IF elem.some THEN is_func0 \/ is_function(elem.val) ELSE is_func0
  IN  IF is_func THEN Some(val) ELSE None

CastKinds == {"GlobalValue", "GlobalVariable", "Alias", "Function"}

try_cast(k, val) ==
  CASE k = "GlobalValue" -> GlobalValue_cast(val)
    [] k = "GlobalVariable" -> GlobalVariable_cast(val)
    [] k = "Alias" -> Alias_cast(val)
    [] k = "Function" -> Function_cast(val)

\* The handles a &Function can hold: those Function::cast accepts.
FunctionRefs == {h \in Handles : Function_cast(h).some}

(***************************************************************************)
(* Names.  A Rust &str is a sequence of bytes that may hold the byte 0; a  *)
(* C string ends at its first byte 0.                                      *)
(***************************************************************************)
Chars == {0, 97}

NameInputs == UNION {[1..n -> Chars] : n \in 0..MaxNameLen}

\* CString::new: an error when the text holds an interior 0 byte.
CString_new(s) ==
  IF \E i \in 1..Len(s) : s[i] = 0 THEN [ok |-> FALSE] ELSE [ok |-> TRUE, val |-> s]

\* LLVMGetValueName: the name the backend holds, the empty string for a value
\* without one.
LLVMGetValueName(h) == name[h]

\* util::to_null_str: None for a missing or empty name.
to_null_str(c) == IF Len(c) = 0 THEN None ELSE Some(c)

\* util::to_str: the C string as a &str.
to_str(c) == c

Value_get_name(h) == to_null_str(LLVMGetValueName(h))

\* Value::set_name: CString::new(name).unwrap(), then LLVMSetValueName.
Value_set_name(h, s) ==
  LET c_name == CString_new(s)
  IN  IF c_name.ok
        THEN [panic |-> FALSE, name |-> [name EXCEPT ![h] = c_name.val]]
        ELSE [panic |-> TRUE, name |-> name]

(***************************************************************************)
(* Function                                                                *)
(***************************************************************************)
LLVMCountParams(f) == Len(Params(f))

\* LLVMGetParam is defined for the indices below the parameter count only.
LLVMGetParam(f, i) == IF i < Len(Params(f)) THEN Params(f)[i + 1] ELSE NullPtr

\* The index with the bounds check off by one (<= for <).
Function_index_le(f, index) ==
  IF index <= LLVMCountParams(f)
    THEN [panic |-> FALSE, out |-> LLVMGetParam(f, index),
          calls |-> {"LLVMCountParams", "LLVMGetParam"}]
    ELSE [panic |-> TRUE,
          msg |-> [text |-> "no such index", index |-> index, on |-> Value_get_type(f)],
          calls |-> {"LLVMCountParams", "LLVMTypeOf"}]

\* Index<usize>: the bounds check, then LLVMGetParam or the panic
\* "no such index {} on {:?}".  The cast `index as c_uint` is taken only
\* below the parameter count, itself a c_uint, so it never truncates.
Function_index(f, index) ==
  IF index < LLVMCountParams(f)
    THEN [panic |-> FALSE, out |-> LLVMGetParam(f, index),
          calls |-> {"LLVMCountParams", "LLVMGetParam"}]
    ELSE [panic |-> TRUE,
          msg |-> [text |-> "no such index", index |-> index, on |-> Value_get_type(f)],
          calls |-> {"LLVMCountParams", "LLVMTypeOf"}]

Function_get_name(f) == to_str(LLVMGetValueName(f))

\* Function::get_signature: LLVMGetElementType of LLVMTypeOf, unconditionally.
Function_get_signature(f) == LLVMGetElementType(LLVMTypeOf(f))

\* util::with_cstr hands the text to the backend as a C string.
with_cstr(s) ==
  LET stops == {i \in 1..Len(s) : s[i] = 0}
  IN  IF stops = {} THEN s
      ELSE SubSeq(s, 1, (CHOOSE i \in stops : \A j \in stops : i <= j) - 1)

\* LLVMAppendBasicBlockInContext: a new block at the end of the block list.
LLVMAppendBasicBlockInContext(bs, c_name) == Append(bs, c_name)

\* The handle of the i-th block of a function.
BlockOf(f, i) == <<f, i>>

\* LLVMGetEntryBasicBlock: the first block, null when there is none.
Function_get_entry(f) == IF Len(blocks[f]) = 0 THEN None ELSE Some(BlockOf(f, 1))

(***************************************************************************)
(* enum Attribute.  A mask of the backend (LLVMAttribute) is modelled by   *)
(* the set of the positions of its 1 bits: 0b1000 is {3}, and the three    *)
(* bits of StackAlignment are {26, 27, 28}.                                *)
(***************************************************************************)
\* The declaration with its last variant left out.
AttributeOrderWithoutLast ==
  <<"ZExt", "SExt", "NoReturn", "InReg", "StructRet", "NoUnwind", "NoAlias",
    "ByVal", "Nest", "ReadNone", "ReadOnly", "NoInline", "AlwaysInline",
    "OptimizeForSize", "StackProtect", "StackProtectReq", "Alignment",
    "NoCapture", "NoRedZone", "NoImplicitFloat", "Naked", "InlineHint",
    "StackAlignment", "ReturnsTwice", "UWTable">>

\* The variants, in the order of their declaration.
AttributeOrder ==
  <<"ZExt", "SExt", "NoReturn", "InReg", "StructRet", "NoUnwind", "NoAlias",
    "ByVal", "Nest", "ReadNone", "ReadOnly", "NoInline", "AlwaysInline",
    "OptimizeForSize", "StackProtect", "StackProtectReq", "Alignment",
    "NoCapture", "NoRedZone", "NoImplicitFloat", "Naked", "InlineHint",
    "StackAlignment", "ReturnsTwice", "UWTable", "NonLazyBind">>

Attribute == {AttributeOrder[i] : i \in 1..Len(AttributeOrder)}

\* The discriminants with StackAlignment written five bits too low.
AttributeBitsShifted(a) ==
  CASE a = "ZExt" -> {0}
    [] a = "SExt" -> {1}
    [] a = "NoReturn" -> {2}
    [] a = "InReg" -> {3}
    [] a = "StructRet" -> {4}
    [] a = "NoUnwind" -> {5}
    [] a = "NoAlias" -> {6}
    [] a = "ByVal" -> {7}
    [] a = "Nest" -> {8}
    [] a = "ReadNone" -> {9}
    [] a = "ReadOnly" -> {10}
    [] a = "NoInline" -> {11}
    [] a = "AlwaysInline" -> {12}
    [] a = "OptimizeForSize" -> {13}
    [] a = "StackProtect" -> {14}
    [] a = "StackProtectReq" -> {15}
    [] a = "Alignment" -> {16}
    [] a = "NoCapture" -> {17}
    [] a = "NoRedZone" -> {18}
    [] a = "NoImplicitFloat" -> {19}
    [] a = "Naked" -> {20}
    [] a = "InlineHint" -> {21}
    [] a = "StackAlignment" -> {21, 22, 23}
    [] a = "ReturnsTwice" -> {29}
    [] a = "UWTable" -> {30}
    [] a = "NonLazyBind" -> {31}

\* The discriminant of each variant.
AttributeBits(a) ==
  CASE a = "ZExt" -> {0}
    [] a = "SExt" -> {1}
    [] a = "NoReturn" -> {2}
    [] a = "InReg" -> {3}
    [] a = "StructRet" -> {4}
    [] a = "NoUnwind" -> {5}
    [] a = "NoAlias" -> {6}
    [] a = "ByVal" -> {7}
    [] a = "Nest" -> {8}
    [] a = "ReadNone" -> {9}
    [] a = "ReadOnly" -> {10}
    [] a = "NoInline" -> {11}
    [] a = "AlwaysInline" -> {12}
    [] a = "OptimizeForSize" -> {13}
    [] a = "StackProtect" -> {14}
    [] a = "StackProtectReq" -> {15}
    [] a = "Alignment" -> {16}
    [] a = "NoCapture" -> {17}
    [] a = "NoRedZone" -> {18}
    [] a = "NoImplicitFloat" -> {19}
    [] a = "Naked" -> {20}
    [] a = "InlineHint" -> {21}
    [] a = "StackAlignment" -> {26, 27, 28}
    [] a = "ReturnsTwice" -> {29}
    [] a = "UWTable" -> {30}
    [] a = "NonLazyBind" -> {31}

\* From<Attribute> for LLVMAttribute: the discriminant, bit for bit.
Attribute_into(attr) == AttributeBits(attr)

\* LLVMAttribute::empty(), the operator | and contains() of the bit flags.
LLVMAttribute_empty == {}

BitOr(x, y) == x \cup y

contains(other, x) == (other \cap x) = x

\* The backend's attribute mask of an argument.
LLVMGetAttribute(h) == attrs[h]

LLVMAddAttribute(m, pa) == BitOr(m, pa)

LLVMRemoveAttribute(m, pa) == m \ pa

\* The backend's attribute mask of a function.
LLVMGetFunctionAttr(h) == attrs[h]

LLVMAddFunctionAttr(m, pa) == BitOr(m, pa)

LLVMRemoveFunctionAttr(m, pa) == m \ pa

(***************************************************************************)
(* Arg: the attribute calls, each as the mask the backend is left with or  *)
(* the answer of the query.                                                *)
(***************************************************************************)
Arg_add_attribute(m, attr) == LLVMAddAttribute(m, Attribute_into(attr))

RECURSIVE Arg_sum(_, _)
Arg_sum(as, sum) ==
  IF as = <<>> THEN sum
  ELSE Arg_sum(Tail(as), BitOr(sum, Attribute_into(Head(as))))

\* The batch call with the sum overwritten by each element (= for |).
Arg_add_attributes_last(m, as) ==
  LLVMAddAttribute(m, IF as = <<>> THEN LLVMAttribute_empty
                      ELSE Attribute_into(as[Len(as)]))

Arg_add_attributes(m, as) == LLVMAddAttribute(m, Arg_sum(as, LLVMAttribute_empty))

Arg_has_attribute(other, attr) == contains(other, Attribute_into(attr))

RECURSIVE Arg_has_attributes(_, _)
Arg_has_attributes(other, as) ==
  IF as = <<>> THEN TRUE
  ELSE IF ~contains(other, Attribute_into(Head(as))) THEN FALSE
  ELSE Arg_has_attributes(other, Tail(as))

Arg_remove_attribute(m, attr) == LLVMRemoveAttribute(m, Attribute_into(attr))

(***************************************************************************)
(* Function: the same calls on the function's own mask.                    *)
(***************************************************************************)
Function_add_attribute(m, attr) == LLVMAddFunctionAttr(m, Attribute_into(attr))

RECURSIVE Function_sum(_, _)
Function_sum(as, sum) ==
  IF as = <<>> THEN sum
  ELSE Function_sum(Tail(as), BitOr(sum, Attribute_into(Head(as))))

Function_add_attributes(m, as) ==
  LLVMAddFunctionAttr(m, Function_sum(as, LLVMAttribute_empty))

Function_has_attribute(other, attr) == contains(other, Attribute_into(attr))

RECURSIVE Function_has_attributes(_, _)
Function_has_attributes(other, as) ==
  IF as = <<>> THEN TRUE
  ELSE IF ~contains(other, Attribute_into(Head(as))) THEN FALSE
  ELSE Function_has_attributes(other, Tail(as))

Function_remove_attribute(m, attr) == LLVMRemoveFunctionAttr(m, Attribute_into(attr))

(***************************************************************************)
(* enum Linkage.                                                           *)
(***************************************************************************)
LinkageOrder ==
  <<"External", "AvailableExternally", "LinkOnceAny", "LinkOnceODR",
    "WeakAny", "WeakODR", "Appending", "Internal", "Private",
    "ExternalWeak", "Common">>

Linkage == {LinkageOrder[i] : i \in 1..Len(LinkageOrder)}

\* The discriminants numbered without the gaps.
LinkageCodeDense(l) ==
  CASE l = "External" -> 0
    [] l = "AvailableExternally" -> 1
    [] l = "LinkOnceAny" -> 2
    [] l = "LinkOnceODR" -> 3
    [] l = "WeakAny" -> 4
    [] l = "WeakODR" -> 5
    [] l = "Appending" -> 6
    [] l = "Internal" -> 7
    [] l = "Private" -> 8
    [] l = "ExternalWeak" -> 9
    [] l = "Common" -> 10

\* The discriminant of each variant.
LinkageCode(l) ==
  CASE l = "External" -> 0
    [] l = "AvailableExternally" -> 1
    [] l = "LinkOnceAny" -> 2
    [] l = "LinkOnceODR" -> 3
    [] l = "WeakAny" -> 5
    [] l = "WeakODR" -> 6
    [] l = "Appending" -> 7
    [] l = "Internal" -> 8
    [] l = "Private" -> 9
    [] l = "ExternalWeak" -> 12
    [] l = "Common" -> 14

\* From<Linkage> for LLVMLinkage: the discriminant.
Linkage_into(l) == LinkageCode(l)

\* From<LLVMLinkage> for Linkage: the variant of that discriminant.  A code
\* that is no variant's discriminant makes a value of no defined variant.
Linkage_from(code) ==
  LET named == {l \in Linkage : LinkageCode(l) = code}
  IN  IF named # {} THEN named ELSE Linkage

GlobalValue_set_linkage(h, l) == [linkage EXCEPT ![h] = Linkage_into(l)]

GlobalValue_get_linkage(h) == Linkage_from(linkage[h])

(***************************************************************************)
(* PhiNode                                                                 *)
(***************************************************************************)
\* LLVMAddIncoming: the first `count` pairs of the two arrays, appended.
LLVMAddIncoming(inc, vals, bbs, count) ==
  inc \o [i \in 1..count |-> <<vals[i], bbs[i]>>]

\* The call with a count of 0.
PhiNode_add_incoming_none(inc, v, b) == LLVMAddIncoming(inc, <<v>>, <<b>>, 0)

PhiNode_add_incoming(inc, v, b) == LLVMAddIncoming(inc, <<v>>, <<b>>, 1)

(***************************************************************************)
(* The state after construction: no value is named, no function has a      *)
(* block, nothing has an attribute, every global has external linkage and  *)
(* the phi node has no incoming pair.                                      *)
(***************************************************************************)
NoResult == [op |-> "none", panic |-> FALSE]

Init ==
  /\ name = [h \in Handles |-> <<>>]
  /\ blocks = [f \in Functions |-> <<>>]
  /\ attrs = [t \in {"a0", "f2"} |-> {}]
  /\ added = [t \in {"a0", "f2"} |-> {}]
  /\ linkage = [h \in {"f2", "g"} |-> Linkage_into("External")]
  /\ incoming = [p \in {"phi"} |-> <<>>]
  /\ phiCalls = <<>>
  /\ result = NoResult

(***************************************************************************)
(* Casts, types, arguments and blocks.                                     *)
(***************************************************************************)
TryCast(h, k) ==
  /\ result' = [op |-> "try_cast", recv |-> h, arg |-> k, panic |-> FALSE,
                out |-> try_cast(k, h)]
  /\ UNCHANGED <<name, blocks, attrs, added, linkage, incoming, phiCalls>>

\* get_type on a reference of a specific kind, and on the same reference
\* seen as a Value.
GetType(h) ==
  /\ result' = [op |-> "get_type", recv |-> h, panic |-> FALSE,
                direct |-> Value_get_type(h), up |-> Value_get_type(deref(h))]
  /\ UNCHANGED <<name, blocks, attrs, added, linkage, incoming, phiCalls>>

Index(f, i) ==
  /\ result' = [op |-> "index", recv |-> f, arg |-> i] @@ Function_index(f, i)
  /\ UNCHANGED <<name, blocks, attrs, added, linkage, incoming, phiCalls>>

GetSignature(h) ==
  /\ \E ty \in Function_get_signature(h) :
       result' = [op |-> "get_signature", recv |-> h, panic |-> FALSE, out |-> ty]
  /\ UNCHANGED <<name, blocks, attrs, added, linkage, incoming, phiCalls>>

AppendBlock(f, s) ==
  /\ Len(blocks[f]) < MaxBlocks
  /\ blocks' = [blocks EXCEPT ![f] = LLVMAppendBasicBlockInContext(@, with_cstr(s))]
  /\ result' = [op |-> "append", recv |-> f, arg |-> s, panic |-> FALSE,
                out |-> BlockOf(f, Len(blocks[f]) + 1)]
  /\ UNCHANGED <<name, attrs, added, linkage, incoming, phiCalls>>

GetEntry(f) ==
  /\ result' = [op |-> "get_entry", recv |-> f, panic |-> FALSE,
                out |-> Function_get_entry(f)]
  /\ UNCHANGED <<name, blocks, attrs, added, linkage, incoming, phiCalls>>

Next ==
  \/ \E h \in Handles, k \in CastKinds : TryCast(h, k)
  \/ \E h \in Handles : GetType(h)
  \/ \E f \in Functions, i \in 0..MaxIndex : Index(f, i)
  \/ \E h \in FunctionRefs : GetSignature(h)
  \/ \E f \in Functions, s \in NameInputs : AppendBlock(f, s)
  \/ \E f \in Functions : GetEntry(f)

Spec == Init /\ [][Next]_vars

(***************************************************************************)
(* Names.                                                                  *)
(***************************************************************************)
NameTargets == {"f0", "a0", "g", "al", "phi"}

SetName(h, s) ==
  LET r == Value_set_name(h, s)
  IN  /\ name' = r.name
      /\ result' = [op |-> "set_name", recv |-> h, arg |-> s, panic |-> r.panic]
      /\ UNCHANGED <<blocks, attrs, added, linkage, incoming, phiCalls>>

\* get_name on a reference of a specific kind (Function has a get_name of its
\* own, which returns a &str; the other kinds reach Value::get_name), and on
\* the same reference seen as a Value.  A &str is recorded as a present name.
GetName(h) ==
  /\ result' = [op |-> "get_name", recv |-> h, panic |-> FALSE,
                direct |-> IF Kind(h) = "Function"
                             THEN Some(Function_get_name(h))
                             ELSE Value_get_name(h),
                up |-> Value_get_name(deref(h))]
  /\ UNCHANGED <<name, blocks, attrs, added, linkage, incoming, phiCalls>>

NextName ==
  \/ \E h \in NameTargets, s \in NameInputs : SetName(h, s)
  \/ \E h \in NameTargets : GetName(h)
  \/ \E h \in NameTargets : GetType(h)
  \/ \E f \in Functions, i \in 0..MaxIndex : Index(f, i)

SpecName == Init /\ [][NextName]_vars

(***************************************************************************)
(* Attributes of the argument a0 and of the function f2.  `added` keeps,   *)
(* for each of them, the set of the flags added and not removed since.     *)
(***************************************************************************)
AttrInputs == {"InlineHint", "StackAlignment", "ReturnsTwice"}

AttrLists == UNION {[1..n -> AttrInputs] : n \in 0..MaxAttrList}

Range(as) == {as[i] : i \in 1..Len(as)}

ArgAddAttribute(a, attr) ==
  /\ attrs' = [attrs EXCEPT ![a] = Arg_add_attribute(@, attr)]
  /\ added' = [added EXCEPT ![a] = @ \cup {attr}]
  /\ result' = [op |-> "add_attribute", recv |-> a, arg |-> attr, panic |-> FALSE]
  /\ UNCHANGED <<name, blocks, linkage, incoming, phiCalls>>

ArgAddAttributes(a, as) ==
  /\ attrs' = [attrs EXCEPT ![a] = Arg_add_attributes(@, as)]
  /\ added' = [added EXCEPT ![a] = @ \cup Range(as)]
  /\ result' = [op |-> "add_attributes", recv |-> a, arg |-> as, panic |-> FALSE,
                before |-> attrs[a]]
  /\ UNCHANGED <<name, blocks, linkage, incoming, phiCalls>>

ArgHasAttribute(a, attr) ==
  /\ result' = [op |-> "has_attribute", recv |-> a, arg |-> attr, panic |-> FALSE,
                out |-> Arg_has_attribute(LLVMGetAttribute(a), attr)]
  /\ UNCHANGED <<name, blocks, attrs, added, linkage, incoming, phiCalls>>

ArgHasAttributes(a, as) ==
  /\ result' = [op |-> "has_attributes", recv |-> a, arg |-> as, panic |-> FALSE,
                out |-> Arg_has_attributes(LLVMGetAttribute(a), as)]
  /\ UNCHANGED <<name, blocks, attrs, added, linkage, incoming, phiCalls>>

ArgRemoveAttribute(a, attr) ==
  /\ attrs' = [attrs EXCEPT ![a] = Arg_remove_attribute(@, attr)]
  /\ added' = [added EXCEPT ![a] = @ \ {attr}]
  /\ result' = [op |-> "remove_attribute", recv |-> a, arg |-> attr, panic |-> FALSE]
  /\ UNCHANGED <<name, blocks, linkage, incoming, phiCalls>>

FunctionAddAttribute(f, attr) ==
  /\ attrs' = [attrs EXCEPT ![f] = Function_add_attribute(@, attr)]
  /\ added' = [added EXCEPT ![f] = @ \cup {attr}]
  /\ result' = [op |-> "add_attribute", recv |-> f, arg |-> attr, panic |-> FALSE]
  /\ UNCHANGED <<name, blocks, linkage, incoming, phiCalls>>

FunctionAddAttributes(f, as) ==
  /\ attrs' = [attrs EXCEPT ![f] = Function_add_attributes(@, as)]
  /\ added' = [added EXCEPT ![f] = @ \cup Range(as)]
  /\ result' = [op |-> "add_attributes", recv |-> f, arg |-> as, panic |-> FALSE,
                before |-> attrs[f]]
  /\ UNCHANGED <<name, blocks, linkage, incoming, phiCalls>>

FunctionHasAttribute(f, attr) ==
  /\ result' = [op |-> "has_attribute", recv |-> f, arg |-> attr, panic |-> FALSE,
                out |-> Function_has_attribute(LLVMGetFunctionAttr(f), attr)]
  /\ UNCHANGED <<name, blocks, attrs, added, linkage, incoming, phiCalls>>

FunctionHasAttributes(f, as) ==
  /\ result' = [op |-> "has_attributes", recv |-> f, arg |-> as, panic |-> FALSE,
                out |-> Function_has_attributes(LLVMGetFunctionAttr(f), as)]
  /\ UNCHANGED <<name, blocks, attrs, added, linkage, incoming, phiCalls>>

FunctionRemoveAttribute(f, attr) ==
  /\ attrs' = [attrs EXCEPT ![f] = Function_remove_attribute(@, attr)]
  /\ added' = [added EXCEPT ![f] = @ \ {attr}]
  /\ result' = [op |-> "remove_attribute", recv |-> f, arg |-> attr, panic |-> FALSE]
  /\ UNCHANGED <<name, blocks, linkage, incoming, phiCalls>>

NextAttr ==
  \/ \E attr \in AttrInputs : ArgAddAttribute("a0", attr)
  \/ \E as \in AttrLists : ArgAddAttributes("a0", as)
  \/ \E attr \in Attribute : ArgHasAttribute("a0", attr)
  \/ \E as \in AttrLists : ArgHasAttributes("a0", as)
  \/ \E attr \in AttrInputs : ArgRemoveAttribute("a0", attr)
  \/ \E attr \in AttrInputs : FunctionAddAttribute("f2", attr)
  \/ \E as \in AttrLists : FunctionAddAttributes("f2", as)
  \/ \E attr \in Attribute : FunctionHasAttribute("f2", attr)
  \/ \E as \in AttrLists : FunctionHasAttributes("f2", as)
  \/ \E attr \in AttrInputs : FunctionRemoveAttribute("f2", attr)

SpecAttr == Init /\ [][NextAttr]_vars

(***************************************************************************)
(* Linkage of the globals f2 and g.                                        *)
(***************************************************************************)
SetLinkage(h, l) ==
  /\ linkage' = GlobalValue_set_linkage(h, l)
  /\ result' = [op |-> "set_linkage", recv |-> h, arg |-> l, panic |-> FALSE]
  /\ UNCHANGED <<name, blocks, attrs, added, incoming, phiCalls>>

GetLinkage(h) ==
  /\ \E l \in GlobalValue_get_linkage(h) :
       result' = [op |-> "get_linkage", recv |-> h, panic |-> FALSE, out |-> l]
  /\ UNCHANGED <<name, blocks, attrs, added, linkage, incoming, phiCalls>>

NextLinkage ==
  \/ \E h \in DOMAIN linkage, l \in Linkage : SetLinkage(h, l)
  \/ \E h \in DOMAIN linkage : GetLinkage(h)

SpecLinkage == Init /\ [][NextLinkage]_vars

(***************************************************************************)
(* Incoming pairs of the phi node.  `phiCalls` keeps the pairs given to    *)
(* add_incoming, in the order of the calls.                                *)
(***************************************************************************)
IncomingValues == {"a0", "a1", "u"}

IncomingBlocks == {BlockOf("f2", 1), BlockOf("f2", 2)}

AddIncoming(p, v, b) ==
  /\ Len(incoming[p]) < MaxIncoming
  /\ incoming' = [incoming EXCEPT ![p] = PhiNode_add_incoming(@, v, b)]
  /\ phiCalls' = Append(phiCalls, <<v, b>>)
  /\ result' = [op |-> "add_incoming", recv |-> p, arg |-> <<v, b>>, panic |-> FALSE]
  /\ UNCHANGED <<name, blocks, attrs, added, linkage>>

NextPhi == \E v \in IncomingValues, b \in IncomingBlocks : AddIncoming("phi", v, b)

SpecPhi == Init /\ [][NextPhi]_vars

(***************************************************************************)
(* Properties of the casts, the argument index and the names.              *)
(***************************************************************************)

\* C1 (downcast soundness): try_cast of a handle to kind K returns Some of
\* the same handle when the handle is of kind K or of a kind below K, and
\* None when its kind is unrelated to K; so Function::cast returns None for
\* an argument or an alias even when its type is a pointer to a function.
DowncastSound ==
  result.op = "try_cast" =>
    IF IsA(Kind(result.recv), result.arg)
      THEN result.out = Some(result.recv)
      ELSE result.out = None

\* C2 (panics): the only call that panics is the index of a Function with an
\* index that is not below its parameter count.
OnlyIndexingPanics ==
  result.panic =>
    /\ result.op = "index"
    /\ result.arg >= LLVMCountParams(result.recv)

\* C3 (argument indexing): indexing a function of N parameters with i < N
\* returns the i-th parameter, which differs from the parameter at any other
\* index; with i >= N it panics with "no such index i" and never calls
\* LLVMGetParam.
ArgumentIndexing ==
  result.op = "index" =>
    LET f == result.recv
        i == result.arg
        N == Len(Params(f))
    IN  IF i < N
          THEN /\ ~result.panic
               /\ result.out = Params(f)[i + 1]
               /\ "LLVMGetParam" \in result.calls
               /\ \A j \in 0..(N - 1) :
                    j # i => /\ ~Function_index(f, j).panic
                             /\ Function_index(f, j).out # result.out
          ELSE /\ result.panic
               /\ result.msg.text = "no such index"
               /\ result.msg.index = i
               /\ "LLVMGetParam" \notin result.calls

\* C3 witnesses: the index N = 2 of a function of two parameters panicked.
ArgumentIndexingWitness ==
  /\ result.op = "index"
  /\ result.recv = "f2"
  /\ result.arg = 2
  /\ result.panic

\* C4 (signature): get_signature returns the pointee when the value's type is
\* a pointer to a function type, and the type itself when the value's type is
\* a function type.
SignatureIsOwnFunctionType ==
  result.op = "get_signature" =>
    LET ty == LLVMTypeOf(result.recv)
    IN  result.out = IF ty.tag = "Pointer" THEN ty.elem ELSE ty

\* C5 (upcast identity): the name and the type read from a reference of a
\* specific kind equal the name and the type read from it as a Value.
UpcastIdentity ==
  result.op \in {"get_name", "get_type"} => result.direct = result.up

(***************************************************************************)
(* Properties of the attributes, the linkage and the phi node.             *)
(***************************************************************************)
IsArg(t) == Kind(t) = "Arg"

HasAttribute(t, attr) ==
  IF IsArg(t) THEN Arg_has_attribute(LLVMGetAttribute(t), attr)
  ELSE Function_has_attribute(LLVMGetFunctionAttr(t), attr)

HasAttributes(t, as) ==
  IF IsArg(t) THEN Arg_has_attributes(LLVMGetAttribute(t), as)
  ELSE Function_has_attributes(LLVMGetFunctionAttr(t), as)

\* The mask left by add_attribute(as[1]), ..., add_attribute(as[n]), one call
\* after the other, on a value whose mask is m.
RECURSIVE OneByOne(_, _, _)
OneByOne(t, m, as) ==
  IF as = <<>> THEN m
  ELSE OneByOne(t, IF IsArg(t) THEN Arg_add_attribute(m, Head(as))
                   ELSE Function_add_attribute(m, Head(as)), Tail(as))

\* No flag's mask is contained in the OR of the masks of all the other flags.
NoFlagCoveredByOthers ==
  \A attr \in Attribute :
    ~contains(UNION {Attribute_into(o) : o \in Attribute \ {attr}},
              Attribute_into(attr))

\* C6 (attribute containment): has_attribute(A) is true exactly for the flags
\* A that were added (and not removed), for every named flag A, the
\* multi-bit StackAlignment included; no flag is contained in the OR of the
\* other flags.
AttributeContainmentExact ==
  /\ \A t \in DOMAIN attrs : \A attr \in Attribute :
       HasAttribute(t, attr) <=> attr \in added[t]
  /\ result.op = "has_attribute" => result.out = (result.arg \in added[result.recv])
  /\ NoFlagCoveredByOthers

\* C6 witness: StackAlignment was added to the argument, its neighbour
\* ReturnsTwice was not, and has_attribute(ReturnsTwice) answered false.
AttributeContainmentWitness ==
  /\ result.op = "has_attribute"
  /\ result.recv = "a0"
  /\ result.arg = "ReturnsTwice"
  /\ added["a0"] = {"StackAlignment", "InlineHint"}
  /\ result.out = FALSE

\* C8 (batch attributes): add_attributes(list) leaves the mask that
\* add_attribute, called for each element in turn, leaves from the same
\* starting mask; afterwards has_attributes(list) is true; has_attributes
\* is the conjunction of has_attribute over the elements of the list.
BatchAttributeEquivalence ==
  /\ result.op = "add_attributes" =>
       /\ attrs[result.recv] = OneByOne(result.recv, result.before, result.arg)
       /\ HasAttributes(result.recv, result.arg)
  /\ result.op = "has_attributes" =>
       result.out = \A i \in 1..Len(result.arg) : HasAttribute(result.recv, result.arg[i])
  /\ \A t \in DOMAIN attrs : \A as \in AttrLists :
       HasAttributes(t, as) = \A i \in 1..Len(as) : HasAttribute(t, as[i])

\* C8 witness: a list of two different flags, one of them already set, was
\* added to the argument in one call.
BatchAttributeWitness ==
  /\ result.op = "add_attributes"
  /\ result.recv = "a0"
  /\ result.arg = <<"StackAlignment", "ReturnsTwice">>
  /\ result.before = Attribute_into("ReturnsTwice")

\* C7 (linkage round trip): each named Linkage converts to its listed code
\* (0, 1, 2, 3, 5, 6, 7, 8, 9, 12, 14) and back to itself; the codes 4, 10,
\* 11 and 13 are never produced; get_linkage after set_linkage(L) gives L.
LinkageRoundTrip ==
  /\ \A l \in Linkage : Linkage_from(Linkage_into(l)) = {l}
  /\ \A i \in 1..Len(LinkageOrder) :
       Linkage_into(LinkageOrder[i]) = <<0, 1, 2, 3, 5, 6, 7, 8, 9, 12, 14>>[i]
  /\ \A h \in DOMAIN linkage : linkage[h] \notin {4, 10, 11, 13}
  /\ result.op = "set_linkage" =>
       GlobalValue_get_linkage(result.recv) = {result.arg}
  /\ result.op = "get_linkage" => Linkage_into(result.out) = linkage[result.recv]

\* C7 witness: the linkage read back is the one after the first gap.
LinkageRoundTripWitness ==
  /\ result.op = "get_linkage"
  /\ result.out = "WeakAny"
  /\ linkage[result.recv] = 5

\* C9 (phi accumulation): the incoming list of the phi node is the list of
\* the pairs given to add_incoming, in the order of the calls, and
\* add_incoming changes nothing else.
PhiAccumulation ==
  /\ incoming["phi"] = phiCalls
  /\ name = [h \in Handles |-> <<>>]
  /\ blocks = [f \in Functions |-> <<>>]
  /\ \A t \in DOMAIN attrs : attrs[t] = {}
  /\ \A h \in DOMAIN linkage : linkage[h] = Linkage_into("External")

\* C9 witness: three calls were made, the first and the last with the same
\* pair.
PhiAccumulationWitness ==
  /\ Len(phiCalls) = 3
  /\ phiCalls[1] = phiCalls[3]
  /\ phiCalls[1] # phiCalls[2]
  /\ result.op = "add_incoming"

\* The named flags an argument has and the named flags it lacks.
FlagsHeld(t) == {attr \in Attribute : HasAttribute(t, attr)}

FlagsLacked(t) == {attr \in Attribute : ~HasAttribute(t, attr)}

\* C10 as stated: the enumeration is a closed set of exactly 25 named flags
\* (the flags a value has and the flags it lacks are 25 together).
AttributeHas25Flags ==
  \A t \in DOMAIN attrs :
    Cardinality(FlagsHeld(t)) + Cardinality(FlagsLacked(t)) = 25

\* C10, amended: the enumeration is a closed set of exactly 26 named flags
\* (the flags a value has and the flags it lacks are 26 together), and only
\* these are ever given to or held by an argument or a function.
AttributeHas26Flags ==
  /\ \A t \in DOMAIN attrs :
       Cardinality(FlagsHeld(t)) + Cardinality(FlagsLacked(t)) = 26
  /\ Len(AttributeOrder) = 26
  /\ AttrInputs \subseteq Attribute
  /\ \A t \in DOMAIN added : added[t] \subseteq Attribute

\* C10 witness: the 26th flag of the declaration was asked for.
AttributeHas26FlagsWitness ==
  /\ result.op = "has_attribute"
  /\ result.arg = AttributeOrder[26]

====
